---- MODULE Spec2Model ----
(***************************************************************************)
(* Model of car_spider_playwright.py: the extraction of a comparison       *)
(* table (CarSpider.extract_car_info), the bounded retry loop              *)
(* (CarSpider.run) and the batch loop (process_car, process_all_cars).     *)
(*                                                                         *)
(* A text is a sequence of characters, each character a one-element        *)
(* string.  Characters outside ASCII are written by their code point:      *)
(* "u2014" is the em dash, "u7a7a" the ideograph of the placeholder        *)
(* meaning "empty", "u8f66" and "u578b" the two ideographs of the          *)
(* synthesized column name.                                                 *)
(***************************************************************************)
EXTENDS Integers, Sequences, FiniteSets, TLC

(* ------------------------------ bounds --------------------------------- *)
MaxCols == 2
MaxRows == 2
MaxCells == MaxCols
MaxUnits == 2

(* ------------------------------ texts ---------------------------------- *)
WS == {" "}

RECURSIVE LStrip(_)
LStrip(s) ==
  IF s = <<>> THEN s
  ELSE IF Head(s) \in WS THEN LStrip(Tail(s)) ELSE s

RECURSIVE RStrip(_)
RStrip(s) ==
  IF s = <<>> THEN s
  ELSE IF s[Len(s)] \in WS THEN RStrip(SubSeq(s, 1, Len(s) - 1)) ELSE s

\* str.strip()
Strip(s) == RStrip(LStrip(s))

\* the list ['--', '/', 'kong', 'N/A'] of lines 181 and 198
Placeholders ==
  { <<"u2014", "u2014">>, <<"/">>, <<"u7a7a">>, <<"N", "/", "A">> }

DigitOf == <<"1", "2", "3", "4", "5", "6", "7", "8", "9">>

\* f'<che><xing>_{idx}' of lines 138, 144 and 145
SynthName(idx) == <<"u8f66", "u578b", "_", DigitOf[idx]>>

(* ------------------------------ page content --------------------------- *)
\* an element handle: text_content() either yields a text, or the read
\* faults (text_content() raises, or yields None and .strip() raises)
TextCell(t) == [raises |-> FALSE, text |-> t]
FaultCell == [raises |-> TRUE, text |-> <<>>]

SeqsUpTo(S, n) == UNION { [1..k -> S] : k \in 0..n }

HeaderCells ==
  { TextCell(<<>>), TextCell(<<" ", "A", " ">>),
    TextCell(<<"u8f66", "u578b", "_", "2">>), FaultCell }

NameCells ==
  { TextCell(<<" ">>), TextCell(<<" ", "L", " ">>), FaultCell }

ValueCells ==
  { TextCell(<<" ">>), TextCell(<<" ", "4", " ">>), TextCell(<<"u2014">>),
    TextCell(<<"u2014", "u2014">>), TextCell(<<"/">>), TextCell(<<"u7a7a">>),
    TextCell(<<"N", "/", "A">>), FaultCell }

ValueSeqs == SeqsUpTo(ValueCells, MaxCells)

\* a row element: found = the name cell exists; raises = one of the row's
\* queries (query_selector, query_selector_all) faults
RowOf(found, raises, name, values) ==
  [found |-> found, raises |-> raises, name |-> name, values |-> values]

Rows ==
  { RowOf(FALSE, FALSE, FaultCell, <<>>), RowOf(TRUE, TRUE, FaultCell, <<>>),
    RowOf(TRUE, FALSE, FaultCell, <<>>) }
  \cup { RowOf(TRUE, FALSE, n, v) :
            n \in NameCells \ {FaultCell}, v \in ValueSeqs }

NoRow == RowOf(FALSE, FALSE, FaultCell, <<>>)

(* ------------------------------ dictionaries --------------------------- *)
EmptyDict == [k \in {} |-> 0]

\* d[k] = v
Put(d, k, v) == [x \in DOMAIN d \cup {k} |-> IF x = k THEN v ELSE d[x]]

\* all_car_data[car_name][param_name] = param_value (lines 182, 199)
StoreParam(data, car_name, param_name, param_value) ==
  Put(data, car_name, Put(data[car_name], param_name, param_value))

(* ------------------------------ extract_car_info ----------------------- *)
\* Optional[Dict]: None, or a dictionary
NoneValue == [isNone |-> TRUE, data |-> EmptyDict]
Some(d) == [isNone |-> FALSE, data |-> d]
\* Python truth value of an Optional[Dict]: None and {} are false
Truthy(r) == ~r.isNone /\ DOMAIN r.data # {}

\* lines 118-121: the primary selector, else the alternate selectors
CarStyles(primary, alternate) == IF primary # <<>> THEN primary ELSE alternate

\* lines 134-145, one iteration of the loop over car_styles
ColumnName(cell, idx) ==
  IF cell.raises THEN SynthName(idx)
  ELSE IF Strip(cell.text) = <<>> THEN SynthName(idx) ELSE Strip(cell.text)

\* lines 129-145: car_names and the initial all_car_data
RECURSIVE CarNames(_, _)
CarNames(car_styles, n) ==
  IF n = 0 THEN <<>>
  ELSE Append(CarNames(car_styles, n - 1), ColumnName(car_styles[n], n))

\* lines 129-145 without line 145: no key for a header whose read faults
RECURSIVE InitialDataSkipsUnreadable(_, _)
InitialDataSkipsUnreadable(car_styles, n) ==
  IF n = 0 THEN EmptyDict
  ELSE IF car_styles[n].raises
       THEN InitialDataSkipsUnreadable(car_styles, n - 1)
       ELSE Put(InitialDataSkipsUnreadable(car_styles, n - 1),
                ColumnName(car_styles[n], n), EmptyDict)

RECURSIVE InitialData(_, _)
InitialData(car_styles, n) ==
  IF n = 0 THEN EmptyDict
  ELSE Put(InitialData(car_styles, n - 1), ColumnName(car_styles[n], n), EmptyDict)

\* lines 148-151: the primary selector, else the alternate selectors
ParamRows(primary, alternate) == IF primary # <<>> THEN primary ELSE alternate

\* line 181: the test of the exact-count path
ValidExact(param_name, param_value) ==
  param_name # <<>> /\ param_value # <<>> /\ param_value \notin Placeholders

\* line 198 without its test of the placeholder list
ValidMismatchKeepsPlaceholders(param_name, param_value) ==
  param_name # <<>> /\ param_value # <<>>

\* line 198: the test of the count-mismatch path
ValidMismatch(param_name, param_value) ==
  param_name # <<>> /\ param_value # <<>> /\ param_value \notin Placeholders

\* lines 175-187: zip(car_names, value_cells), the first n pairs
RECURSIVE ExactBranch(_, _, _, _, _)
ExactBranch(car_names, data, param_name, value_cells, n) ==
  IF n = 0 THEN data
  ELSE LET d == ExactBranch(car_names, data, param_name, value_cells, n - 1)
           cell == value_cells[n]
       IN IF cell.raises THEN d
          ELSE IF ValidExact(param_name, Strip(cell.text))
               THEN StoreParam(d, car_names[n], param_name, Strip(cell.text))
               ELSE d

\* lines 191-202: enumerate(value_cells), the first n cells
RECURSIVE MismatchBranch(_, _, _, _, _)
MismatchBranch(car_names, data, param_name, value_cells, n) ==
  IF n = 0 THEN data
  ELSE LET d == MismatchBranch(car_names, data, param_name, value_cells, n - 1)
           cell == value_cells[n]
       IN IF ~(n <= Len(car_names)) THEN d
          ELSE IF cell.raises THEN d
          ELSE IF ValidMismatch(param_name, Strip(cell.text))
               THEN StoreParam(d, car_names[n], param_name, Strip(cell.text))
               ELSE d

\* line 173
CountsMatch(car_names, value_cells) == Len(value_cells) = Len(car_names)

\* lines 162-170: the row is left by `continue` (no name cell, line 164) or
\* by the handler of lines 203-205 (a query or the read of the name faults)
SkipsRow(r) == r.raises \/ ~r.found \/ r.name.raises

\* lines 173-202: all_car_data after the cells of a row that is not skipped
AlignRow(car_names, data, r) ==
  IF CountsMatch(car_names, r.values)
  THEN ExactBranch(car_names, data, Strip(r.name.text), r.values, Len(r.values))
  ELSE MismatchBranch(car_names, data, Strip(r.name.text), r.values, Len(r.values))

\* lines 160-205, the body of the loop over param_rows: the new all_car_data
\* and whether the warning of line 189 was printed
ProcessRow(car_names, data, r) ==
  IF SkipsRow(r)
  THEN [data |-> data, warned |-> FALSE]
  ELSE [data |-> AlignRow(car_names, data, r),
        warned |-> ~CountsMatch(car_names, r.values)]

\* lines 159-205: the loop over the first n rows
RECURSIVE ProcessRows(_, _, _, _)
ProcessRows(car_names, data, param_rows, n) ==
  IF n = 0 THEN [data |-> data, warnings |-> 0]
  ELSE LET acc == ProcessRows(car_names, data, param_rows, n - 1)
           res == ProcessRow(car_names, acc.data, param_rows[n])
       IN [data |-> res.data,
           warnings |-> acc.warnings + (IF res.warned THEN 1 ELSE 0)]

\* lines 207-212: the value returned once every row is processed
FinalResult(data) == IF DOMAIN data = {} THEN NoneValue ELSE Some(data)

\* a page: loadFault = a wait_for_load_state or a query of the page faults
PageOf(loadFault, styles, altStyles, rows, altRows) ==
  [loadFault |-> loadFault, styles |-> styles, altStyles |-> altStyles,
   rows |-> rows, altRows |-> altRows]

\* lines 110-216 with the fault the handler of lines 214-216 catches left
\* unnoticed
ExtractCarInfoIgnoresLoadFault(page) ==
  LET car_styles == CarStyles(page.styles, page.altStyles)
      car_names == CarNames(car_styles, Len(car_styles))
      param_rows == ParamRows(page.rows, page.altRows)
  IN IF car_styles = <<>> THEN NoneValue
     ELSE IF param_rows = <<>> THEN NoneValue
     ELSE FinalResult(ProcessRows(car_names,
                                  InitialData(car_styles, Len(car_styles)),
                                  param_rows, Len(param_rows)).data)

\* lines 110-216: extract_car_info on a whole page
ExtractCarInfo(page) ==
  LET car_styles == CarStyles(page.styles, page.altStyles)
      car_names == CarNames(car_styles, Len(car_styles))
      param_rows == ParamRows(page.rows, page.altRows)
  IN IF page.loadFault THEN NoneValue
     ELSE IF car_styles = <<>> THEN NoneValue
     ELSE IF param_rows = <<>> THEN NoneValue
     ELSE FinalResult(ProcessRows(car_names,
                                  InitialData(car_styles, Len(car_styles)),
                                  param_rows, Len(param_rows)).data)

\* lines 175 and 191-192: the cells of a row whose value is read and tested
PairsAttempted(car_names, value_cells) ==
  IF CountsMatch(car_names, value_cells)
  THEN Len(value_cells)
  ELSE Cardinality({ i \in 1..Len(value_cells) : i <= Len(car_names) })

\* lines 175-179 and 191-195: the read of the i-th value cell of the row
\* is attempted
CellRead(car_names, value_cells, i) ==
  CountsMatch(car_names, value_cells) \/ i <= Len(car_names)

\* a fault of extract_car_info: "stage" = caught by the handler of lines
\* 214-216, "inner" = caught by a handler of lines 143-145, 185-187,
\* 200-202 or 203-205
ExtractFaultOf(page) ==
  LET car_styles == CarStyles(page.styles, page.altStyles)
      car_names == CarNames(car_styles, Len(car_styles))
      param_rows == ParamRows(page.rows, page.altRows)
  IN IF page.loadFault THEN "stage"
     ELSE IF \E i \in 1..Len(car_styles) : car_styles[i].raises THEN "inner"
     ELSE IF car_styles = <<>> THEN "none"
     ELSE IF \E i \in 1..Len(param_rows) :
               LET r == param_rows[i]
               IN \/ r.raises
                  \/ r.found /\ r.name.raises
                  \/ /\ ~SkipsRow(r)
                     /\ \E j \in 1..Len(r.values) :
                          CellRead(car_names, r.values, j) /\ r.values[j].raises
          THEN "inner"
     ELSE "none"

(* ------------------------------ state ---------------------------------- *)
VARIABLES
  epc,           \* position in extract_car_info
  car_names,     \* line 132
  all_car_data,  \* line 129
  rowsLeft,      \* rows of param_rows not yet visited by the loop of line 159
  row,           \* the row the loop of line 159 visited last
  warned,        \* the warning of line 189 was printed for that row
  pairs,         \* (param_name, param_value) pairs read and tested for that row
  ret            \* the value extract_car_info returned

evars == <<epc, car_names, all_car_data, rowsLeft, row, warned, pairs, ret>>

VARIABLES
  bpc,           \* position in process_all_cars
  car_list,      \* line 313
  idx,           \* units the loop of line 325 has taken from car_list
  all_cars_data, \* line 322
  outcomes,      \* per unit, in order: the value process_car returned and
                 \* whether the message of line 274 was printed
  allWritten     \* writes of all_cars_info.json (lines 339-341)

bvars == <<bpc, car_list, idx, all_cars_data, outcomes, allWritten>>

VARIABLES
  rpc,           \* position in process_car and CarSpider.run
  retry_count,   \* line 241
  result_data,   \* line 242
  car_info,      \* line 257
  car_data,      \* line 326: the value on its way back from run
  browser,       \* self.browser: "unset", "open" or "closed"
  playwright     \* self.playwright: "unset", "started" or "stopped"

rvars == <<rpc, retry_count, result_data, car_info, car_data, browser, playwright>>

VARIABLES
  navCount,      \* calls of page.goto (line 248) for the unit
  allNavFailed,  \* no call of page.goto for the unit returned normally
  pendingFail,   \* stage of a failed attempt no sleep has followed yet
  saved,         \* outcome of save_data for the unit: "none", "ok", "failed"
  readiness,     \* what the page showed to the wait_for_page_load that
                 \* returned last, until the next stage begins
  probed,        \* selectors that call waited for (line 85), in order
  attemptFault   \* faults of the current attempt: "none", "inner" (caught
                 \* inside a stage, which went on) or "stage" (caught by
                 \* the handler that ends the stage)

hvars ==
  <<navCount, allNavFailed, pendingFail, saved, readiness, probed, attemptFault>>

vars == <<evars, bvars, rvars, hvars>>

(* ------------------------------ extract_car_info, step by step --------- *)
InitPage ==
  /\ epc = "start"
  /\ car_names = <<>>
  /\ all_car_data = EmptyDict
  /\ rowsLeft = 0
  /\ row = NoRow
  /\ warned = FALSE
  /\ pairs = 0
  /\ ret = NoneValue

Return(value) ==
  /\ ret' = value
  /\ epc' = "done"

\* lines 114-115, 118, 121, 148, 151 raise: the handler of lines 214-216
ExtractFault ==
  /\ epc \in {"start", "rows"}
  /\ Return(NoneValue)
  /\ UNCHANGED <<car_names, all_car_data, rowsLeft, row, warned, pairs>>
  /\ UNCHANGED <<bvars, rvars, hvars>>

\* lines 117-145
DiscoverColumns ==
  /\ epc = "start"
  /\ \E primary \in SeqsUpTo(HeaderCells, MaxCols),
        alternate \in SeqsUpTo(HeaderCells, MaxCols) :
       LET car_styles == CarStyles(primary, alternate)
       IN IF car_styles = <<>>
          THEN /\ Return(NoneValue)
               /\ UNCHANGED <<car_names, all_car_data>>
          ELSE /\ car_names' = CarNames(car_styles, Len(car_styles))
               /\ all_car_data' = InitialData(car_styles, Len(car_styles))
               /\ epc' = "rows"
               /\ UNCHANGED ret
  /\ UNCHANGED <<rowsLeft, row, warned, pairs, bvars, rvars, hvars>>

\* lines 147-156
QueryRows ==
  /\ epc = "rows"
  /\ \E primary \in 0..MaxRows, alternate \in 0..MaxRows :
       LET n == IF primary # 0 THEN primary ELSE alternate
       IN IF n = 0
          THEN /\ Return(NoneValue)
               /\ UNCHANGED rowsLeft
          ELSE /\ rowsLeft' = n
               /\ epc' = "loop"
               /\ UNCHANGED ret
  /\ UNCHANGED <<car_names, all_car_data, row, warned, pairs, bvars, rvars, hvars>>

\* lines 160-173 and 189: the cells of the next row are queried and counted
ReadRow ==
  /\ epc = "loop"
  /\ rowsLeft > 0
  /\ \E r \in Rows :
       IF SkipsRow(r)
       THEN /\ rowsLeft' = rowsLeft - 1
            /\ UNCHANGED <<epc, row, warned>>
       ELSE /\ row' = r
            /\ warned' = ~CountsMatch(car_names, r.values)
            /\ epc' = "row"
            /\ UNCHANGED rowsLeft
  /\ UNCHANGED <<car_names, all_car_data, pairs, ret, bvars, rvars, hvars>>

\* lines 175-187 or 191-202: the loop over the value cells of the row
AlignRowStep ==
  /\ epc = "row"
  /\ all_car_data' = AlignRow(car_names, all_car_data, row)
  /\ pairs' = PairsAttempted(car_names, row.values)
  /\ epc' = "aligned"
  /\ UNCHANGED <<car_names, rowsLeft, row, warned, ret, bvars, rvars, hvars>>

\* the iteration ends: its locals are dead, the loop goes to the next row
EndRow ==
  /\ epc = "aligned"
  /\ row' = NoRow
  /\ warned' = FALSE
  /\ pairs' = 0
  /\ rowsLeft' = rowsLeft - 1
  /\ epc' = "loop"
  /\ UNCHANGED <<car_names, all_car_data, ret, bvars, rvars, hvars>>

\* lines 207-212
FinishExtract ==
  /\ epc = "loop"
  /\ rowsLeft = 0
  /\ Return(FinalResult(all_car_data))
  /\ UNCHANGED <<car_names, all_car_data, rowsLeft, row, warned, pairs>>
  /\ UNCHANGED <<bvars, rvars, hvars>>

NextExtract ==
  \/ ExtractFault
  \/ DiscoverColumns
  \/ QueryRows
  \/ ReadRow
  \/ AlignRowStep
  \/ EndRow
  \/ FinishExtract

(* ------------------------------ units and pages ------------------------ *)
\* a key a descriptor does not have
Absent == "<absent>"

\* dict.get(key, default) of lines 288-290 and 328-329
Get(value, default) == IF value = Absent THEN default ELSE value

UnknownBrand == "unknown-brand"
UnknownModel == "unknown-model"

UnitOf(name, subname, url) == [name |-> name, subname |-> subname, url |-> url]

Units ==
  { UnitOf("a", "x", "u1"), UnitOf("a", "y", "u2"),
    UnitOf(Absent, "x", "u3"), UnitOf("a", "x", Absent),
    UnitOf("a", "y", "") }

CarLists == SeqsUpTo(Units, MaxUnits)

NameRow(values) == RowOf(TRUE, FALSE, TextCell(<<" ", "L", " ">>), values)

\* two columns, the second one unnamed; one row with a value and a placeholder
PageGood ==
  PageOf(FALSE, <<TextCell(<<" ", "A", " ">>), TextCell(<<>>)>>, <<>>,
         <<NameRow(<<TextCell(<<" ", "4", " ">>), TextCell(<<"u2014", "u2014">>)>>)>>,
         <<>>)

\* found by the alternate selectors only
PageAlternate ==
  PageOf(FALSE, <<>>, <<TextCell(<<"A">>)>>,
         <<>>, <<NameRow(<<TextCell(<<"u2014">>)>>)>>)

\* every value is a placeholder
PagePlaceholders ==
  PageOf(FALSE, <<TextCell(<<"A">>)>>, <<>>,
         <<NameRow(<<TextCell(<<"u2014", "u2014">>)>>)>>, <<>>)

PageNoStyles == PageOf(FALSE, <<>>, <<>>, <<NameRow(<<>>)>>, <<>>)
PageNoRows == PageOf(FALSE, <<TextCell(<<"A">>)>>, <<>>, <<>>, <<>>)
PageLoadFault == PageOf(TRUE, <<TextCell(<<"A">>)>>, <<>>, <<NameRow(<<>>)>>, <<>>)

\* the second header, the queries of the first row and the second value of
\* the second row fault
PageFaultyCells ==
  PageOf(FALSE, <<TextCell(<<" ", "A", " ">>), FaultCell>>, <<>>,
         <<RowOf(TRUE, TRUE, FaultCell, <<>>),
           NameRow(<<TextCell(<<" ", "4", " ">>), FaultCell>>)>>,
         <<>>)

PageSet ==
  { PageGood, PageAlternate, PagePlaceholders, PageNoStyles, PageNoRows,
    PageLoadFault, PageFaultyCells }

(* ------------------------------ wait_for_page_load --------------------- *)
\* lines 75-81
selectors ==
  <<"table-box", "car-config", "parameter-list", "config-list", "spec-list">>

Selectors == { selectors[i] : i \in 1..Len(selectors) }

\* what the page does while it is waited for: settled = both
\* wait_for_load_state calls return; visible = the selectors that show up
\* within the timeout; faulty = the selectors whose wait_for_selector raises
\* something else than a timeout
ReadinessOf(settled, visible, faulty) ==
  [settled |-> settled, visible |-> visible, faulty |-> faulty]

VisibleSets ==
  { {}, {"table-box"}, {"car-config", "config-list"},
    {"parameter-list", "spec-list"}, {"spec-list"}, Selectors }

Readiness ==
  { ReadinessOf(TRUE, v, {}) : v \in VisibleSets }
  \cup { ReadinessOf(FALSE, {}, {}), ReadinessOf(FALSE, Selectors, {}),
         ReadinessOf(TRUE, {"spec-list"}, {"table-box"}),
         ReadinessOf(TRUE, {}, {"car-config"}) }

NotYetWaited == ReadinessOf(FALSE, {}, {})

\* line 85 returns for the selector
Found(r, selector) == selector \in r.visible /\ selector \notin r.faulty

\* lines 83-89 without the return of line 87
RECURSIVE ProbeEverySelector(_, _)
ProbeEverySelector(r, n) ==
  IF n > Len(selectors) THEN <<>>
  ELSE <<selectors[n]>> \o ProbeEverySelector(r, n + 1)

\* lines 83-89: the selectors line 85 waits for, from the n-th of the list on
RECURSIVE ProbeSelectors(_, _)
ProbeSelectors(r, n) ==
  IF n > Len(selectors) THEN <<>>
  ELSE IF Found(r, selectors[n]) THEN <<selectors[n]>>
  ELSE <<selectors[n]>> \o ProbeSelectors(r, n + 1)

\* lines 69-89: the selectors wait_for_page_load waits for, in order
Probes(r) == IF ~r.settled THEN <<>> ELSE ProbeSelectors(r, 1)

\* lines 65-108
WaitForPageLoad(r) ==
  IF ~r.settled THEN FALSE
  ELSE LET p == Probes(r)
       IN p # <<>> /\ Found(r, p[Len(p)])

\* a fault of wait_for_page_load: "stage" = caught by the handler of lines
\* 106-108, "inner" = caught by the handler of lines 88-89
WaitFault(r) ==
  IF ~r.settled THEN "stage"
  ELSE IF \E i \in 1..Len(Probes(r)) : Probes(r)[i] \in r.faulty THEN "inner"
  ELSE "none"

(* ------------------------------ CarSpider.run -------------------------- *)
max_retries == 3

\* line 244 with <= for <
LoopContinuesOnceMore(count) == count <= max_retries

\* line 244
LoopContinues(count) == count < max_retries

InitRun ==
  /\ rpc = "idle"
  /\ retry_count = 0
  /\ result_data = NoneValue
  /\ car_info = NoneValue
  /\ car_data = NoneValue
  /\ browser = "unset"
  /\ playwright = "unset"
  /\ navCount = 0
  /\ allNavFailed = TRUE
  /\ pendingFail = "none"
  /\ saved = "none"
  /\ readiness = NotYetWaited
  /\ probed = <<>>
  /\ attemptFault = "none"

InitBatch ==
  /\ bpc = "preflight"
  /\ car_list = <<>>
  /\ idx = 0
  /\ all_cars_data = EmptyDict
  /\ outcomes = <<>>
  /\ allWritten = 0

\* lines 236-238: where a fault stops init_browser, create_context, new_page
InitStages == {"start", "launch", "context", "ok"}

\* lines 235-242, and 278-280 when one of the calls faults
InitBrowser ==
  /\ rpc = "init"
  /\ \E stage \in InitStages :
       /\ playwright' = IF stage = "start" THEN "unset" ELSE "started"
       /\ browser' = IF stage \in {"start", "launch"} THEN "unset" ELSE "open"
       /\ rpc' = IF stage = "ok" THEN "head" ELSE "finally"
  /\ retry_count' = 0
  /\ result_data' = NoneValue
  /\ car_data' = NoneValue
  /\ UNCHANGED <<car_info, hvars, bvars, evars>>

\* lines 244-248, and 268-270 when page.goto faults
Navigate ==
  /\ rpc = "head"
  /\ LoopContinues(retry_count)
  /\ navCount' = navCount + 1
  /\ \E ok \in BOOLEAN :
       IF ok
       THEN /\ rpc' = "wait"
            /\ allNavFailed' = FALSE
            /\ attemptFault' = "none"
            /\ UNCHANGED <<retry_count, pendingFail>>
       ELSE /\ retry_count' = retry_count + 1
            /\ pendingFail' = "nav"
            /\ attemptFault' = "stage"
            /\ rpc' = "sleep"
            /\ UNCHANGED allNavFailed
  /\ readiness' = NotYetWaited
  /\ probed' = <<>>
  /\ UNCHANGED <<result_data, car_info, car_data, browser, playwright, saved,
                 bvars, evars>>

\* lines 251-254 without the increment of line 253
WaitStepKeepsCount ==
  /\ rpc = "wait"
  /\ \E r \in Readiness :
       /\ readiness' = r
       /\ probed' = Probes(r)
       /\ attemptFault' = WaitFault(r)
       /\ IF WaitForPageLoad(r)
          THEN /\ rpc' = "extract"
               /\ UNCHANGED pendingFail
          ELSE /\ pendingFail' = "ready"
               /\ rpc' = "head"
  /\ UNCHANGED <<retry_count, result_data, car_info, car_data, browser,
                 playwright, navCount, allNavFailed, saved, bvars, evars>>

\* lines 251-254
WaitStep ==
  /\ rpc = "wait"
  /\ \E r \in Readiness :
       /\ readiness' = r
       /\ probed' = Probes(r)
       /\ attemptFault' = WaitFault(r)
       /\ IF WaitForPageLoad(r)
          THEN /\ rpc' = "extract"
               /\ UNCHANGED <<retry_count, pendingFail>>
          ELSE /\ retry_count' = retry_count + 1
               /\ pendingFail' = "ready"
               /\ rpc' = "head"
  /\ UNCHANGED <<result_data, car_info, car_data, browser, playwright,
                 navCount, allNavFailed, saved, bvars, evars>>

\* lines 257-259 and 263-265, a failed extraction followed by line 257
\* again instead of line 244
ExtractStepResumes ==
  /\ rpc = "extract"
  /\ \E page \in PageSet :
       /\ car_info' = ExtractCarInfo(page)
       /\ attemptFault' = IF ExtractFaultOf(page) = "none" THEN attemptFault
                          ELSE ExtractFaultOf(page)
       /\ IF Truthy(ExtractCarInfo(page))
          THEN /\ rpc' = "save"
               /\ UNCHANGED <<retry_count, pendingFail>>
          ELSE /\ retry_count' = retry_count + 1
               /\ pendingFail' = "extract"
               /\ rpc' = "extract"
  /\ readiness' = NotYetWaited
  /\ probed' = <<>>
  /\ UNCHANGED <<result_data, car_data, browser, playwright,
                 navCount, allNavFailed, saved, bvars, evars>>

\* lines 257-259 and 263-265
ExtractStep ==
  /\ rpc = "extract"
  /\ \E page \in PageSet :
       /\ car_info' = ExtractCarInfo(page)
       /\ attemptFault' = IF ExtractFaultOf(page) = "none" THEN attemptFault
                          ELSE ExtractFaultOf(page)
       /\ IF Truthy(ExtractCarInfo(page))
          THEN /\ rpc' = "save"
               /\ UNCHANGED <<retry_count, pendingFail>>
          ELSE /\ retry_count' = retry_count + 1
               /\ pendingFail' = "extract"
               /\ rpc' = "sleep"
  /\ readiness' = NotYetWaited
  /\ probed' = <<>>
  /\ UNCHANGED <<result_data, car_data, browser, playwright,
                 navCount, allNavFailed, saved, bvars, evars>>

\* lines 218-231: the value save_data returns
SaveData(data, ok) == IF ok THEN data ELSE NoneValue

\* lines 261-262
SaveStep ==
  /\ rpc = "save"
  /\ \E ok \in BOOLEAN :
       /\ result_data' = SaveData(car_info, ok)
       /\ saved' = IF ok THEN "ok" ELSE "failed"
  /\ rpc' = "after"
  /\ UNCHANGED <<retry_count, car_info, car_data, browser, playwright,
                 navCount, allNavFailed, pendingFail, readiness, probed,
                 attemptFault, bvars, evars>>

\* lines 266 and 271: asyncio.sleep(random.uniform(5, 10))
Sleep ==
  /\ rpc = "sleep"
  /\ pendingFail' = "none"
  /\ rpc' = "head"
  /\ UNCHANGED <<retry_count, result_data, car_info, car_data, browser,
                 playwright, navCount, allNavFailed, saved, readiness, probed,
                 attemptFault, bvars, evars>>

\* lines 273-276, after `break` or after the test of line 244 fails
ReturnResult ==
  /\ \/ rpc = "after"
     \/ rpc = "head" /\ ~LoopContinues(retry_count)
  /\ car_data' = result_data
  /\ rpc' = "finally"
  /\ UNCHANGED <<retry_count, result_data, car_info, browser, playwright,
                 hvars, bvars, evars>>

\* lines 281-283, then 297-300: an exception of the finally block replaces
\* the value run was returning, and process_car turns it into None
Finally ==
  /\ rpc = "finally"
  /\ IF browser = "unset"
     THEN /\ car_data' = NoneValue
          /\ UNCHANGED <<browser, playwright>>
     ELSE \E closed \in BOOLEAN, stopped \in BOOLEAN :
            /\ browser' = IF closed THEN "closed" ELSE browser
            /\ playwright' = IF closed /\ stopped THEN "stopped" ELSE playwright
            /\ car_data' = IF closed /\ stopped THEN car_data ELSE NoneValue
  /\ rpc' = "returned"
  /\ UNCHANGED <<retry_count, result_data, car_info, hvars, bvars, evars>>

(* ------------------------------ process_car, process_all_cars ---------- *)
\* lines 304-319
Preflight ==
  /\ bpc = "preflight"
  /\ \E ok \in BOOLEAN, list \in CarLists :
       IF ~ok
       THEN /\ bpc' = "aborted"
            /\ UNCHANGED car_list
       ELSE /\ car_list' = list
            /\ bpc' = IF list = <<>> THEN "empty" ELSE "loop"
  /\ UNCHANGED <<idx, all_cars_data, outcomes, allWritten, rvars, hvars, evars>>

\* line 291 with `url is None` for `not url`
HasUrlUnlessAbsent(u) == u.url # Absent

\* line 291
HasUrl(u) == u.url # Absent /\ u.url # ""

\* lines 325-326 and 287-296: the next unit; ctor = CarSpider(...) returns
StartUnit ==
  /\ bpc = "loop"
  /\ idx < Len(car_list)
  /\ idx' = idx + 1
  /\ bpc' = "unit"
  /\ \E ctor \in BOOLEAN :
       rpc' = IF HasUrl(car_list[idx + 1]) /\ ctor THEN "init" ELSE "returned"
  /\ UNCHANGED <<car_list, all_cars_data, outcomes, allWritten,
                 retry_count, result_data, car_info, car_data, browser,
                 playwright, hvars, evars>>

\* lines 327-336 without the test of line 327
InsertAnyValue(dataset, u, data) ==
  LET brand_name == Get(u.name, UnknownBrand)
      subname == Get(u.subname, UnknownModel)
      brand == IF brand_name \in DOMAIN dataset THEN dataset[brand_name]
               ELSE EmptyDict
  IN Put(dataset, brand_name, Put(brand, subname, data.data))

\* lines 327-336 without the test of line 332
InsertIntoNewBrand(dataset, u, data) ==
  LET brand_name == Get(u.name, UnknownBrand)
      subname == Get(u.subname, UnknownModel)
  IN IF Truthy(data)
     THEN Put(dataset, brand_name, Put(EmptyDict, subname, data.data))
     ELSE dataset

\* lines 327-336 with line 336 skipped when the model has an entry already
InsertKeepsFirst(dataset, u, data) ==
  LET brand_name == Get(u.name, UnknownBrand)
      subname == Get(u.subname, UnknownModel)
      brand == IF brand_name \in DOMAIN dataset THEN dataset[brand_name]
               ELSE EmptyDict
  IN IF Truthy(data) /\ subname \notin DOMAIN brand
     THEN Put(dataset, brand_name, Put(brand, subname, data.data))
     ELSE dataset

\* lines 327-336
Insert(dataset, u, data) ==
  LET brand_name == Get(u.name, UnknownBrand)
      subname == Get(u.subname, UnknownModel)
      brand == IF brand_name \in DOMAIN dataset THEN dataset[brand_name]
               ELSE EmptyDict
  IN IF Truthy(data)
     THEN Put(dataset, brand_name, Put(brand, subname, data.data))
     ELSE dataset

\* lines 326-336; the CarSpider of the unit and the locals of run are dropped
Aggregate ==
  /\ bpc = "unit"
  /\ rpc = "returned"
  /\ all_cars_data' = Insert(all_cars_data, car_list[idx], car_data)
  /\ outcomes' = Append(outcomes, [value |-> car_data,
                                    exhausted |-> ~LoopContinues(retry_count)])
  /\ bpc' = "loop"
  /\ rpc' = "idle"
  /\ retry_count' = 0
  /\ result_data' = NoneValue
  /\ car_info' = NoneValue
  /\ car_data' = NoneValue
  /\ browser' = "unset"
  /\ playwright' = "unset"
  /\ navCount' = 0
  /\ allNavFailed' = TRUE
  /\ pendingFail' = "none"
  /\ saved' = "none"
  /\ readiness' = NotYetWaited
  /\ probed' = <<>>
  /\ attemptFault' = "none"
  /\ UNCHANGED <<car_list, idx, allWritten, evars>>

\* lines 338-345 reached before the loop of line 325 is over
WriteAllBeforeLoopEnds ==
  /\ bpc = "loop"
  /\ allWritten' = allWritten + 1
  /\ bpc' = "done"
  /\ UNCHANGED <<car_list, idx, all_cars_data, outcomes, rvars, hvars, evars>>

\* lines 338-345
WriteAll ==
  /\ bpc = "loop"
  /\ idx = Len(car_list)
  /\ \E ok \in BOOLEAN :
       IF ok
       THEN /\ allWritten' = allWritten + 1
            /\ bpc' = "done"
       ELSE /\ bpc' = "failed"
            /\ UNCHANGED allWritten
  /\ UNCHANGED <<car_list, idx, all_cars_data, outcomes, rvars, hvars, evars>>

(* ------------------------------ specifications -------------------------- *)
InitExtract == InitPage /\ InitBatch /\ InitRun

SpecExtract == InitExtract /\ [][NextExtract]_vars

Init == InitBatch /\ InitRun /\ InitPage

Next ==
  \/ Preflight
  \/ StartUnit
  \/ InitBrowser
  \/ Navigate
  \/ WaitStep
  \/ ExtractStep
  \/ SaveStep
  \/ Sleep
  \/ ReturnResult
  \/ Finally
  \/ Aggregate
  \/ WriteAll

Spec == Init /\ [][Next]_vars


(* ------------------------------ properties of extract_car_info --------- *)
\* the identifiers of a list of columns are pairwise different
Distinct(names) ==
  \A i, j \in 1..Len(names) : i # j => names[i] # names[j]

\* a value cell whose text is read, and is neither empty nor a placeholder
Survives(cell) ==
  /\ ~cell.raises
  /\ Strip(cell.text) # <<>>
  /\ Strip(cell.text) \notin Placeholders

\* every (label, value) entry of an ExtractionResult is sanitized
Sanitized(data) ==
  \A c \in DOMAIN data : \A l \in DOMAIN data[c] :
    /\ l # <<>>
    /\ data[c][l] # <<>>
    /\ data[c][l] \notin Placeholders

\* C1: every (label, value) entry of a result that extract_car_info returns,
\* and of the result under construction after the exact-count and after the
\* count-mismatch path, has a non-empty label and a value that is neither
\* empty nor one of the four placeholders.
C1_StoredEntriesSanitized ==
  /\ Sanitized(all_car_data)
  /\ ~ret.isNone => Sanitized(ret.data)

\* a result was returned in which one column holds an entry and another
\* column holds none
C1_Witness ==
  /\ epc = "done"
  /\ ~ret.isNone
  /\ \E c \in DOMAIN ret.data : DOMAIN ret.data[c] # {}
  /\ \E c \in DOMAIN ret.data : DOMAIN ret.data[c] = {}

\* C2: the identifiers of the ColumnSet (car_names) are pairwise unique and
\* non-empty.
C2_ColumnsUniqueNonEmpty ==
  /\ \A i \in 1..Len(car_names) : car_names[i] # <<>>
  /\ Distinct(car_names)

\* the part of C2 the loop of lines 133-145 does establish: no identifier
\* is empty, and all_car_data has exactly the identifiers as keys
ColumnsNonEmpty ==
  /\ \A i \in 1..Len(car_names) : car_names[i] # <<>>
  /\ DOMAIN all_car_data = { car_names[i] : i \in 1..Len(car_names) }

\* the map of column i after a row, when value i alone decides it
ExpectedColumn(i) ==
  IF i <= Len(row.values) /\ Survives(row.values[i]) /\ Strip(row.name.text) # <<>>
  THEN Put(all_car_data[car_names[i]], Strip(row.name.text),
           Strip(row.values[i].text))
  ELSE all_car_data[car_names[i]]

ExactStep ==
  /\ epc = "row"
  /\ epc' = "aligned"
  /\ CountsMatch(car_names, row.values)
  /\ Strip(row.name.text) # <<>>

ExactEffect ==
  \A i \in 1..Len(car_names) : all_car_data'[car_names[i]] = ExpectedColumn(i)

\* C6: a row with a non-empty label and as many value cells as columns
\* stores value i under column i and only there if it survives sanitization,
\* and produces no entry for column i otherwise.
C6_ExactAlignment == [][ExactStep => ExactEffect]_vars

\* C6 for a ColumnSet of pairwise different identifiers
ExactAlignmentOfDistinctColumns ==
  [][ExactStep /\ Distinct(car_names) => ExactEffect]_vars

MismatchStep ==
  /\ epc = "row"
  /\ epc' = "aligned"
  /\ ~CountsMatch(car_names, row.values)

Min(a, b) == IF a <= b THEN a ELSE b

MismatchEffect ==
  LET c == Len(row.values)
      N == Len(car_names)
  IN /\ warned
     /\ pairs' = Min(c, N)
     /\ \A i \in 1..Min(c, N) : all_car_data'[car_names[i]] = ExpectedColumn(i)
     /\ \A i \in (c + 1)..N : all_car_data'[car_names[i]] = all_car_data[car_names[i]]
     /\ DOMAIN all_car_data' = DOMAIN all_car_data
     /\ ret' = ret

\* C7: a row whose count c of value cells differs from the count N of
\* columns has min(c, N) pairs attempted, value i paired with column i; the
\* columns from c on are unchanged, the values from N on are dropped, the
\* warning is printed and extraction goes on.
C7_MismatchAlignment == [][MismatchStep => MismatchEffect]_vars

\* C7 for a ColumnSet of pairwise different identifiers
MismatchAlignmentOfDistinctColumns ==
  [][MismatchStep /\ Distinct(car_names) => MismatchEffect]_vars

(* ------------------------------ properties of run and of the batch ----- *)
\* C3: a unit whose every page.goto faults is navigated to exactly
\* max_retries times, and run then returns None; no unit is navigated to
\* more often.
C3_RetryBound ==
  /\ navCount <= max_retries
  /\ (rpc \in {"finally", "returned"} /\ navCount >= 1 /\ allNavFailed) =>
       /\ navCount = max_retries
       /\ car_data.isNone

\* run has returned for a unit whose three navigations all faulted
C3_Witness ==
  /\ rpc = "returned"
  /\ allNavFailed
  /\ navCount = max_retries
  /\ retry_count = max_retries
  /\ car_data.isNone

\* (brand, model) of a unit, as lines 328-329 read them
KeyOf(u) == <<Get(u.name, UnknownBrand), Get(u.subname, UnknownModel)>>

\* the (brand, model) pairs that have an entry
Entries(dataset) ==
  UNION { { <<b, m>> : m \in DOMAIN dataset[b] } : b \in DOMAIN dataset }

\* the units processed so far whose process_car returned a result
Successful == { i \in 1..Len(outcomes) : Truthy(outcomes[i].value) }

\* unit i is the last successful unit with its (brand, model)
LastOfKey(i) ==
  \A j \in Successful : KeyOf(car_list[j]) = KeyOf(car_list[i]) => j <= i

Terminal == bpc \in {"done", "failed", "aborted", "empty"}

\* C4: after a unit A has failed (retries exhausted, or any other fault),
\* the batch goes on: it is aborted only before the first unit, it ends
\* only when every unit has been processed, a later successful unit B has
\* its entry in the dataset, and no entry exists for a (brand, model) that
\* only failed units have.
C4_FailureIsolation ==
  /\ bpc = "aborted" => idx = 0
  /\ bpc \in {"done", "failed"} => Len(outcomes) = Len(car_list)
  /\ ~Terminal => ENABLED Next
  /\ \A i \in Successful :
       LastOfKey(i) =>
         /\ KeyOf(car_list[i]) \in Entries(all_cars_data)
         /\ all_cars_data[KeyOf(car_list[i])[1]][KeyOf(car_list[i])[2]]
              = outcomes[i].value.data
  /\ \A a \in 1..Len(outcomes) :
       (\A j \in Successful : KeyOf(car_list[j]) # KeyOf(car_list[a])) =>
         KeyOf(car_list[a]) \notin Entries(all_cars_data)

\* the batch is over; unit 1 exhausted its retries, the later unit 2
\* succeeded and is the only entry of the dataset
C4_Witness ==
  /\ bpc = "done"
  /\ Len(outcomes) >= 2
  /\ outcomes[1].exhausted /\ outcomes[1].value.isNone
  /\ Truthy(outcomes[2].value)
  /\ KeyOf(car_list[1]) # KeyOf(car_list[2])
  /\ KeyOf(car_list[2]) \in Entries(all_cars_data)
  /\ KeyOf(car_list[1]) \notin Entries(all_cars_data)

\* C5: when the successful units have pairwise different (brand, model)
\* pairs, the dataset has exactly one entry per successful unit, equal to
\* the result of that unit, and no other entry; a brand has a mapping as
\* soon as, and only when, a unit of the brand has succeeded.
C5_Aggregation ==
  (\A i, j \in Successful : i # j => KeyOf(car_list[i]) # KeyOf(car_list[j])) =>
    /\ Entries(all_cars_data) = { KeyOf(car_list[i]) : i \in Successful }
    /\ Cardinality(Entries(all_cars_data)) = Cardinality(Successful)
    /\ \A i \in Successful :
         all_cars_data[KeyOf(car_list[i])[1]][KeyOf(car_list[i])[2]]
           = outcomes[i].value.data
    /\ DOMAIN all_cars_data = { KeyOf(car_list[i])[1] : i \in Successful }

\* two units of one brand and different models have succeeded with
\* different results
C5_Witness ==
  /\ bpc = "done"
  /\ Len(outcomes) >= 2
  /\ Truthy(outcomes[1].value) /\ Truthy(outcomes[2].value)
  /\ outcomes[1].value # outcomes[2].value
  /\ KeyOf(car_list[1])[1] = KeyOf(car_list[2])[1]
  /\ KeyOf(car_list[1])[2] # KeyOf(car_list[2])[2]
  /\ Cardinality(Entries(all_cars_data)) >= 2

\* an ExtractionResult with at least one (label, value) pair
HasEntries(data) == \E c \in DOMAIN data : DOMAIN data[c] # {}

\* C8: a page of which no (label, value) pair is stored fails the attempt:
\* run never goes on to save_data (Success) with a result of zero entries.
C8_EmptyExtractionFails ==
  rpc = "save" => HasEntries(car_info.data)

\* C9: when save_data fails for a unit whose extraction succeeded, the
\* result of the extraction is still inserted into the dataset under the
\* (brand, model) of the unit, and the batch goes on.
C9_PersistenceErrorKeepsResult ==
  [][(bpc = "unit" /\ rpc = "returned" /\ rpc' = "idle" /\ saved = "failed") =>
       /\ bpc' = "loop"
       /\ KeyOf(car_list[idx]) \in Entries(all_cars_data')
       /\ all_cars_data'[KeyOf(car_list[idx])[1]][KeyOf(car_list[idx])[2]]
            = car_info.data]_vars

\* what holds instead of C9: the failure is caught and the batch goes on,
\* but the unit returns None and the dataset is left as it was
PersistenceErrorDropsResult ==
  [][(bpc = "unit" /\ rpc = "returned" /\ rpc' = "idle" /\ saved = "failed") =>
       /\ bpc' = "loop"
       /\ car_data.isNone
       /\ all_cars_data' = all_cars_data]_vars

\* C10: no navigation follows a failed attempt of the same unit without a
\* backoff sleep in between, whatever stage failed.
C10_BackoffBeforeRetry ==
  [][navCount' = navCount + 1 => pendingFail = "none"]_vars

\* what holds instead of C10: only a readiness failure is retried at once
BackoffUnlessReadinessFailure ==
  [][navCount' = navCount + 1 => pendingFail \in {"none", "ready"}]_vars

(* ------------------------------ the combined artifact ------------------ *)
\* C11: every batch run that passes pre-flight, the run of an empty input
\* list included, writes all_cars_info exactly once (a run whose write
\* itself faults is left aside).
C11_CombinedArtifactWrittenOnce ==
  bpc \in {"done", "empty"} => allWritten = 1

\* C11 as amended: a run with a non-empty input list writes all_cars_info
\* at most once, only after process_car has returned for every unit, and
\* exactly once unless the write itself faults; a run with an empty input
\* list returns without writing it.
C11_WrittenOnceAfterAllUnits ==
  /\ allWritten <= 1
  /\ allWritten = 1 =>
       /\ bpc = "done"
       /\ Len(outcomes) = Len(car_list)
       /\ idx = Len(car_list)
       /\ rpc = "idle"
  /\ bpc = "done" => allWritten = 1 /\ car_list # <<>>
  /\ bpc = "failed" => allWritten = 0 /\ Len(outcomes) = Len(car_list)
  /\ bpc \in {"empty", "aborted"} => allWritten = 0 /\ idx = 0

\* the artifact of a batch of two units, one exhausted and one successful,
\* is written
C11_Witness ==
  /\ bpc = "done"
  /\ allWritten = 1
  /\ Len(car_list) = 2
  /\ outcomes[1].exhausted
  /\ Truthy(outcomes[2].value)

(* ------------------------------ the retry loop, step by step ----------- *)
\* positions inside the loop of lines 244-271
LoopPositions == {"head", "wait", "extract", "save", "sleep"}

\* steps that are left before run returns, at most: it decreases with
\* every step taken inside the loop
Rank ==
  7 * (max_retries - retry_count)
  + (CASE rpc = "sleep" -> 6
       [] rpc = "head" -> 5
       [] rpc = "wait" -> 4
       [] rpc = "extract" -> 3
       [] rpc = "save" -> 2
       [] rpc = "after" -> 1
       [] OTHER -> 0)

\* C12: whatever each attempt does, the loop of run ends after at most
\* max_retries navigations: the counter never exceeds max_retries, every
\* step inside the loop brings the end nearer, an iteration that goes back
\* to the loop test has raised the counter by exactly one (as many
\* navigations as failures), and the iteration that ends the loop with a
\* result has not raised it.
C12_BoundedAttempts ==
  [][ /\ retry_count' <= max_retries
      /\ navCount' <= max_retries
      /\ rpc \in LoopPositions =>
           /\ retry_count' \in {retry_count, retry_count + 1}
           /\ Rank' >= 0
           /\ Rank' < Rank
      /\ rpc \in LoopPositions /\ rpc' = "head" => navCount' = retry_count'
      /\ rpc' = "after" => navCount' = retry_count' + 1
      /\ rpc \in LoopPositions /\ rpc' = "finally" =>
           retry_count' = max_retries /\ navCount' = max_retries
    ]_vars

\* the third attempt failed at readiness, after a navigation that worked:
\* the loop test is reached with every attempt used
C12_Witness ==
  /\ rpc = "head"
  /\ retry_count = max_retries
  /\ navCount = max_retries
  /\ pendingFail = "ready"

\* a step of the loop that fails the attempt
FailureStep ==
  \/ rpc = "head" /\ rpc' = "sleep"
  \/ rpc = "wait" /\ rpc' = "head"
  \/ rpc = "extract" /\ rpc' = "sleep"

\* C13: a failure of navigation, readiness or extraction raises the counter
\* by exactly one whatever the stage, and leaves nothing of the attempt (no
\* result, no truthy car_info, nothing saved); the counter changes in no
\* other way during run; after the failure the loop goes to its test and,
\* if attempts remain, to page.goto: readiness is entered only by a fresh
\* navigation and extraction only by the readiness that followed it.
C13_CoarseGrainedRetry ==
  [][ /\ FailureStep =>
           /\ retry_count' = retry_count + 1
           /\ result_data'.isNone
           /\ ~Truthy(car_info')
           /\ saved' = "none"
      /\ rpc \in LoopPositions /\ retry_count' # retry_count => FailureStep
      /\ rpc = "sleep" => rpc' = "head"
      /\ rpc = "head" => rpc' \in {"wait", "sleep", "finally"}
      /\ rpc = "head" /\ rpc' \in {"wait", "sleep"} =>
           LoopContinues(retry_count) /\ navCount' = navCount + 1
      /\ rpc' = "wait" => rpc = "head"
      /\ rpc' = "extract" => rpc = "wait" /\ navCount' = navCount
    ]_vars

\* the third attempt, after two failed ones, is waiting for readiness on a
\* page it navigated to afresh
C13_Witness ==
  /\ rpc = "wait"
  /\ retry_count = 2
  /\ navCount = 3
  /\ ~Truthy(car_info)

(* ------------------------------ faults inside an attempt --------------- *)
\* C14: an attempt in which a fault was raised, in whatever stage
\* (navigation, readiness waiting, the read of a column header, of a row's
\* label or of a value cell), does not end in success: save_data is not
\* reached for it.
C14_FaultNeverEndsInSuccess ==
  rpc \in {"save", "after"} => attemptFault = "none"

\* a step in which a stage of the attempt is ended by a fault
StageFaultStep ==
  /\ rpc \in {"head", "wait", "extract"}
  /\ attemptFault' = "stage"
  /\ attemptFault # "stage" \/ navCount' # navCount

\* C14 as amended: a fault that ends a stage (page.goto raises, a
\* wait_for_load_state raises, a query of the whole page raises) fails the
\* attempt like a logical failure does: no result, no truthy car_info, one
\* attempt consumed, and the loop goes on to its test; an attempt with such
\* a fault never reaches save_data.  A fault caught where it occurs (the
\* probe of one selector, the read of one header, label or value cell) does
\* not by itself fail the attempt.
C14_StageFaultFailsAttempt ==
  [][ /\ StageFaultStep =>
           /\ retry_count' = retry_count + 1
           /\ result_data'.isNone
           /\ ~Truthy(car_info')
           /\ rpc' \in {"sleep", "head"}
      /\ rpc' \in {"save", "after"} => attemptFault' # "stage"
      /\ rpc = "extract" /\ attemptFault' = "inner" =>
           \E page \in PageSet :
             /\ ExtractFaultOf(page) # "stage"
             /\ car_info' = ExtractCarInfo(page)
             /\ rpc' = IF Truthy(ExtractCarInfo(page)) THEN "save" ELSE "sleep"
    ]_vars

\* an attempt in which the read of a header and of a value cell faulted
\* reaches save_data with a result
C14_Witness ==
  /\ rpc = "save"
  /\ attemptFault = "inner"
  /\ car_info = ExtractCarInfo(PageFaultyCells)
  /\ Truthy(car_info)

(* ------------------------------ readiness detection -------------------- *)
\* C15: wait_for_page_load waits for the selectors in the order of the
\* list, from the first one and without gaps; it stops at the first
\* selector that is found and waits for none after it; it returns True
\* when the load-state waits return and some selector is found, and False
\* otherwise, that is when a load-state wait fails (no selector is waited
\* for then) or when every selector of the list was waited for and none
\* was found (line 88 takes a fault of the probe for a timeout).
C15_ReadinessProbeOrder ==
  [][ rpc = "wait" =>
        LET r == readiness'
            p == probed'
            success == rpc' = "extract"
        IN /\ Len(p) <= Len(selectors)
           /\ \A i \in 1..Len(p) : p[i] = selectors[i]
           /\ \A i \in 1..(Len(p) - 1) : ~Found(r, p[i])
           /\ success \/ rpc' = "head"
           /\ success <=> r.settled /\ \E i \in 1..Len(selectors) : Found(r, selectors[i])
           /\ success => p # <<>> /\ Found(r, p[Len(p)])
           /\ ~success <=>
                \/ ~r.settled /\ p = <<>>
                \/ /\ r.settled
                   /\ p = selectors
                   /\ \A i \in 1..Len(p) : ~Found(r, p[i])
    ]_vars

\* the second and the fourth selector are visible: the wait returned True
\* after the second one, and the last three were not waited for
C15_Witness ==
  /\ rpc = "extract"
  /\ readiness.visible = {"car-config", "config-list"}
  /\ probed = <<"table-box", "car-config">>

(* ------------------------------ the browser session -------------------- *)
\* C16: on every exit path of a unit, a fault of init_browser included,
\* what was acquired is released: once process_car has returned, no
\* browser is left open and no playwright driver is left started.
C16_SessionReleased ==
  rpc = "returned" => browser # "open" /\ playwright # "started"

(* ------------------------------ duplicate (brand, model) pairs --------- *)
\* the entry of a (brand, model) pair
EntryOf(dataset, key) == dataset[key[1]][key[2]]

\* C17: when process_car returns a result for a unit, the entry of the
\* unit's (brand, model) becomes that result, whether or not an earlier
\* unit of the batch had written it (the earlier result is overwritten and
\* the batch goes on); no entry of another pair is added, removed or
\* changed.  So among successful units with one pair, the entry is always
\* the result of the latest one.
C17_LastWriteWins ==
  [][ /\ bpc = "unit" /\ bpc' = "loop" /\ Truthy(car_data) =>
           LET key == KeyOf(car_list[idx])
           IN /\ Entries(all_cars_data') = Entries(all_cars_data) \cup {key}
              /\ EntryOf(all_cars_data', key) = car_data.data
              /\ \A e \in Entries(all_cars_data) \ {key} :
                   EntryOf(all_cars_data', e) = EntryOf(all_cars_data, e)
              /\ outcomes' = Append(outcomes, [value |-> car_data,
                                               exhausted |-> FALSE])
      /\ \A i \in 1..Len(outcomes'), j \in 1..Len(outcomes') :
           /\ i < j
           /\ Truthy(outcomes'[i].value) /\ Truthy(outcomes'[j].value)
           /\ KeyOf(car_list'[i]) = KeyOf(car_list'[j])
           /\ \A k \in (j + 1)..Len(outcomes') :
                Truthy(outcomes'[k].value) => KeyOf(car_list'[k]) # KeyOf(car_list'[j])
           => EntryOf(all_cars_data', KeyOf(car_list'[j])) = outcomes'[j].value.data
    ]_vars

\* two units with the same (brand, model) succeeded with different results:
\* the batch ended normally and the entry is the result of the second
C17_Witness ==
  /\ bpc = "done"
  /\ Len(outcomes) = 2
  /\ KeyOf(car_list[1]) = KeyOf(car_list[2])
  /\ Truthy(outcomes[1].value) /\ Truthy(outcomes[2].value)
  /\ outcomes[1].value # outcomes[2].value
  /\ Entries(all_cars_data) = {KeyOf(car_list[1])}
  /\ EntryOf(all_cars_data, KeyOf(car_list[2])) = outcomes[2].value.data

(* ------------------------------ keys of an ExtractionResult ------------ *)
\* the identifiers of the columns discovered by the attempt
ColumnSet == { car_names[i] : i \in 1..Len(car_names) }

\* C18: from column discovery on, the keys of all_car_data are exactly the
\* identifiers of the discovered columns, and so are the top-level keys of
\* every result extract_car_info returns: a column with no surviving
\* attribute keeps its key, with an empty map, and no other key appears.
C18_KeysAreColumns ==
  /\ epc \in {"rows", "loop", "row", "aligned"} =>
       car_names # <<>> /\ DOMAIN all_car_data = ColumnSet
  /\ epc = "done" /\ ~ret.isNone =>
       /\ car_names # <<>>
       /\ ret.data = all_car_data
       /\ DOMAIN ret.data = ColumnSet

\* a result with two columns is returned: one has an attribute, the other
\* one, whose header could not be read, has none and keeps its key
C18_Witness ==
  /\ epc = "done"
  /\ ~ret.isNone
  /\ Len(car_names) = 2
  /\ car_names[2] = SynthName(2)
  /\ DOMAIN ret.data = {car_names[1], car_names[2]}
  /\ DOMAIN ret.data[car_names[1]] # {}
  /\ DOMAIN ret.data[car_names[2]] = {}

(* ------------------------------ units without a url -------------------- *)
\* the descriptor has no "url" key, or an empty one
NoUrl(u) == u.url = Absent \/ u.url = ""

\* C19: a unit whose url is missing or empty is taken from the list and
\* process_car returns None for it at once: no browser is launched, no
\* navigation is made, no attempt is counted; the dataset is left as it was
\* and the loop goes on to the next unit, so that the batch ends only when
\* every unit has been processed.
C19_UnitWithoutUrlSkipped ==
  [][ /\ bpc = "loop" /\ bpc' = "unit" /\ NoUrl(car_list[idx + 1]) =>
           /\ rpc' = "returned"
           /\ car_data'.isNone
           /\ browser' = "unset" /\ playwright' = "unset"
           /\ navCount' = 0 /\ retry_count' = 0
      /\ bpc = "unit" /\ NoUrl(car_list[idx]) =>
           /\ rpc = "returned"
           /\ bpc' = "loop"
           /\ idx' = idx
           /\ all_cars_data' = all_cars_data
           /\ outcomes' = Append(outcomes, [value |-> NoneValue,
                                            exhausted |-> FALSE])
      /\ bpc' \in {"done", "failed"} =>
           idx' = Len(car_list') /\ Len(outcomes') = Len(car_list')
    ]_vars

\* the first unit has an empty url and the second one a url: the batch
\* ended normally with the entry of the second unit only
C19_Witness ==
  /\ bpc = "done"
  /\ Len(car_list) = 2
  /\ car_list[1].url = ""
  /\ outcomes[1].value.isNone
  /\ Truthy(outcomes[2].value)
  /\ KeyOf(car_list[1]) # KeyOf(car_list[2])
  /\ Entries(all_cars_data) = {KeyOf(car_list[2])}

====
